---- MODULE Spec2Model ----
(***************************************************************************)
(* A model of SolrClient/solrresp.py: the SolrResponse wrapper around one  *)
(* decoded Solr JSON response.  The state is the instance's attributes     *)
(* (data, docs, num_found, groups, the three memoized facet views), the    *)
(* object the caller handed to the constructor as it was before the call,  *)
(* and the outcome of the last method call.  One action per method.        *)
(***************************************************************************)
EXTENDS Integers, Sequences, FiniteSets, TLC

VARIABLES
    input,        \* the decoded JSON object as it was when handed to __init__
    pc,           \* "new": not yet constructed, "ready": instance exists, "failed": __init__ raised
    data,         \* self.data (the same object as the argument: no copy is made)
    docsRef,      \* what self.docs is bound to (a reference into data, or an own object)
    grouped,      \* self.grouped
    groups,       \* self.groups, a mapping '<field>_ngroups' / '<field>_matches' -> number
    num_found,    \* self.num_found: [set |-> hasattr, val |-> value]
    query_time,   \* self.query_time
    facets,       \* self.facets: [set |-> hasattr, val |-> value]
    facet_ranges, \* self.facet_ranges: [set |-> hasattr, val |-> value]
    facet_pivot,  \* self.facet_pivot: [set |-> hasattr, val |-> value]
    ret           \* the last call: <<method, argument, outcome, value>>

vars == <<input, pc, data, docsRef, grouped, groups, num_found, query_time,
          facets, facet_ranges, facet_pivot, ret>>

----------------------------------------------------------------------------
(* Bounds of the model.                                                    *)

MaxStrLen == 3      \* longest string value enumerated character by character
MaxDocs == 2        \* longest response.docs list
MaxNum == 1         \* largest numFound / ngroups / matches
MaxFlatLen == 4     \* longest flat [value, count, ...] facet list
MaxPivotLen == 2    \* longest list of pivot entries at one level
MaxPivotDepth == 3  \* deepest nesting of pivot entries
MaxCount == 2       \* largest count of a pivot entry

----------------------------------------------------------------------------
(* JSON values held by document fields and facet lists.  A value is a      *)
(* record of one shape: t is the Python type, s the characters of a str,   *)
(* n the value of an int.  Lists and mappings held by a field are opaque.  *)

VStr(s) == [t |-> "str", s |-> s, n |-> 0]
VInt(n) == [t |-> "int", s |-> <<>>, n |-> n]
VList == [t |-> "list", s |-> <<>>, n |-> 0]
VMap == [t |-> "dict", s |-> <<>>, n |-> 0]

\* Characters: ASCII decimal digits, a letter, and U+00B2 SUPERSCRIPT TWO
\* ("sup2"), for which str.isdigit() is true and int() raises ValueError.
DecimalChars == {"0", "1", "7"}
DigitChars == DecimalChars \cup {"sup2"}
Alphabet == DigitChars \cup {"a"}

DigitVal(c) == CASE c = "0" -> 0 [] c = "1" -> 1 [] c = "2" -> 2 [] c = "3" -> 3
                 [] c = "4" -> 4 [] c = "5" -> 5 [] c = "6" -> 6 [] c = "7" -> 7
                 [] c = "8" -> 8 [] c = "9" -> 9

DigitChar(d) == CASE d = 0 -> "0" [] d = 1 -> "1" [] d = 2 -> "2" [] d = 3 -> "3"
                  [] d = 4 -> "4" [] d = 5 -> "5" [] d = 6 -> "6" [] d = 7 -> "7"
                  [] d = 8 -> "8" [] d = 9 -> "9"

\* str.isdigit(): non-empty and every character is a digit character.
IsDigit(s) == Len(s) > 0 /\ \A i \in 1..Len(s) : s[i] \in DigitChars

\* int(s) succeeds on a digit string only when every character is a decimal.
IntParses(s) == Len(s) > 0 /\ \A i \in 1..Len(s) : s[i] \in DecimalChars \cup {"2", "3", "4", "5", "6", "8", "9"}

\* int(s): base-10 value of the digits, most significant first.
RECURSIVE ToInt(_)
ToInt(s) == IF Len(s) = 0 THEN 0
            ELSE 10 * ToInt(SubSeq(s, 1, Len(s) - 1)) + DigitVal(s[Len(s)])

\* The decimal text of a non-negative integer, as json.dumps writes it.
RECURSIVE IntText(_)
IntText(n) == IF n < 10 THEN <<DigitChar(n)>>
              ELSE Append(IntText(n \div 10), DigitChar(n % 10))

----------------------------------------------------------------------------
(* __init__, lines 28-31: the in-place normalization of self.docs.         *)

\* Line 30: the test that selects a field for conversion.
ShouldConvert(v) == v.t = "str" /\ IsDigit(v.s)

\* A conversion that leaves the text in place.
ConvertKeepsText(v) == v
\* Line 31: the value stored back into the field.
ConvertValue(v) == VInt(ToInt(v.s))

\* Lines 29-31 for one document: every selected field is overwritten.
NormalizeDoc(doc) ==
    [f \in DOMAIN doc |-> IF ShouldConvert(doc[f]) THEN ConvertValue(doc[f]) ELSE doc[f]]

\* int() raises ValueError inside the loop for a digit string it cannot parse.
DocRaises(doc) == \E f \in DOMAIN doc : ShouldConvert(doc[f]) /\ ~IntParses(doc[f].s)

\* Lines 28-31 over the whole collection.
NormalizeDocs(ds) == [i \in 1..Len(ds) |-> NormalizeDoc(ds[i])]
DocsRaise(ds) == \E i \in 1..Len(ds) : DocRaises(ds[i])

----------------------------------------------------------------------------
(* The decoded response.  Every section has one record shape whether it is *)
(* present or not, so that two responses can always be compared.           *)

Header(present, hasQTime, qtime) == [present |-> present, hasQTime |-> hasQTime, QTime |-> qtime]
OkHeader == Header(TRUE, TRUE, 1)

NoResponse == [present |-> FALSE, docs |-> <<>>, hasNumFound |-> FALSE, numFound |-> 0]
Response1(p, ds, has, n) == [present |-> p, docs |-> ds, hasNumFound |-> has, numFound |-> n]
Response(ds, has, n) == Response1(TRUE, ds, has, n)

\* 'grouped' is an insertion-ordered mapping: a sequence of entries with
\* distinct field names, in the order Python iterates them.
NoGrouped == [present |-> FALSE, fields |-> <<>>]
Grouped(fs) == [present |-> TRUE, fields |-> fs]
GroupedField(f, ng, m, gs) == [field |-> f, ngroups |-> ng, matches |-> m, groups |-> gs]

Absent == [kind |-> "absent", val |-> <<>>]
Section(v) == [kind |-> "dict", val |-> v]
NotADict == [kind |-> "other", val |-> <<>>]
FacetCounts(kind, ff, fr, fp) ==
    [kind |-> kind, facet_fields |-> ff, facet_ranges |-> fr, facet_pivot |-> fp]
NoFacetCounts == FacetCounts("absent", Absent, Absent, Absent)

NoCursor == [present |-> FALSE, mark |-> ""]
Cursor(m) == [present |-> TRUE, mark |-> m]

Raw(h, r, g, fc, c) ==
    [responseHeader |-> h, response |-> r, grouped |-> g, facet_counts |-> fc,
     nextCursorMark |-> c]

SeqsUpTo(S, n) == UNION {[1..k -> S] : k \in 0..n}

----------------------------------------------------------------------------
(* __init__, lines 7-31.                                                   *)

Unset(v) == [set |-> FALSE, val |-> v]
Set(v) == [set |-> TRUE, val |-> v]
\* The outcome of a call: the method, its argument, how it ended ("ok", "None"
\* when it returned None, or the exception raised) and the value returned.
Ret(op, arg, outcome, val) == <<op, arg, outcome, val>>

NoRef == [kind |-> "unset", idx |-> 0]

\* Lines 14, 23, 26: what self.docs is bound to when the dispatch is over.
\* In grouped mode every iteration rebinds it, so the last field's group
\* list stays; with no field under 'grouped' it is never bound.
DocsRefAtInit(d) ==
    IF d.response.present THEN [kind |-> "response", idx |-> 0]
    ELSE IF d.grouped.present
         THEN IF Len(d.grouped.fields) = 0 THEN NoRef
              ELSE [kind |-> "grouped", idx |-> Len(d.grouped.fields)]
         ELSE [kind |-> "own", idx |-> 0]

\* The collection a reference denotes in a given raw object.
Deref(ref, d) ==
    CASE ref.kind = "response" -> d.response.docs
      [] ref.kind = "grouped" -> d.grouped.fields[ref.idx].groups
      [] ref.kind = "own" -> <<>>

\* A constructor that binds num_found to 0 when the response has none.
NumFoundDefaultsToZero(d) ==
    IF d.response.present /\ d.response.hasNumFound
    THEN Set(d.response.numFound) ELSE Set(0)
\* Lines 15-16: num_found is bound only in ungrouped mode with numFound.
NumFoundAtInit(d) ==
    IF d.response.present /\ d.response.hasNumFound
    THEN Set(d.response.numFound) ELSE Unset(0)

\* Lines 18-22: the flat metadata mapping of grouped mode.
GroupKeys(fs) == UNION {{fs[i].field \o "_ngroups", fs[i].field \o "_matches"} : i \in 1..Len(fs)}
GroupsAtInit(d) ==
    IF ~d.response.present /\ d.grouped.present
    THEN Set([k \in GroupKeys(d.grouped.fields) |->
               LET i == CHOOSE i \in 1..Len(d.grouped.fields) :
                            k \in {d.grouped.fields[i].field \o "_ngroups",
                                   d.grouped.fields[i].field \o "_matches"}
               IN IF k = d.grouped.fields[i].field \o "_ngroups"
                  THEN d.grouped.fields[i].ngroups
                  ELSE d.grouped.fields[i].matches])
    ELSE Unset(<<>>)

\* Lines 28-31 write through self.docs: the documents are the very objects
\* held by data, so data changes with them.
DataAfterInit(d) ==
    LET ref == DocsRefAtInit(d) IN
    CASE ref.kind = "response" -> [d EXCEPT !.response.docs = NormalizeDocs(@)]
      [] ref.kind = "grouped" ->
            [d EXCEPT !.grouped.fields[ref.idx].groups = NormalizeDocs(@)]
      [] OTHER -> d

\* How __init__ ends: line 9 raises KeyError without responseHeader.QTime,
\* line 28 raises AttributeError when self.docs was never bound, line 31
\* raises ValueError when int() rejects a digit string.
InitOutcome(d) ==
    IF ~d.responseHeader.present \/ ~d.responseHeader.hasQTime THEN "KeyError"
    ELSE IF DocsRefAtInit(d).kind = "unset" THEN "AttributeError"
    ELSE IF DocsRaise(Deref(DocsRefAtInit(d), d)) THEN "ValueError"
    ELSE "ok"

Construct ==
    /\ pc = "new"
    /\ IF InitOutcome(data) = "ok"
       THEN /\ pc' = "ready"
            /\ data' = DataAfterInit(data)
            /\ docsRef' = DocsRefAtInit(data)
            /\ grouped' = (~data.response.present /\ data.grouped.present)
            /\ groups' = GroupsAtInit(data)
            /\ num_found' = NumFoundAtInit(data)
            /\ query_time' = data.responseHeader.QTime
            /\ ret' = Ret("__init__", "", "ok", 0)
       ELSE \* the exception leaves no instance behind
            /\ pc' = "failed"
            /\ ret' = Ret("__init__", "", InitOutcome(data), 0)
            /\ UNCHANGED <<data, docsRef, grouped, groups, num_found, query_time>>
    /\ UNCHANGED <<input, facets, facet_ranges, facet_pivot>>

RetOp == ret[1]
RetArg == ret[2]
RetOutcome == ret[3]
RetVal == ret[4]

\* self.docs of the constructed instance.
Docs == Deref(docsRef, data)

----------------------------------------------------------------------------
(* The accessors over the document collection, lines 33-65, 97-104,        *)
(* 178-187, 226-235 and 280-284.                                           *)

DocFields == {"f", "g"}

GetNumFound ==
    /\ pc = "ready"
    /\ ret' = IF num_found.set THEN Ret("get_num_found", "", "ok", num_found.val)
              ELSE Ret("get_num_found", "", "AttributeError", 0)
    /\ UNCHANGED <<input, pc, data, docsRef, grouped, groups, num_found, query_time,
                   facets, facet_ranges, facet_pivot>>

GetResultsCount ==
    /\ pc = "ready"
    /\ ret' = Ret("get_results_count", "", "ok", Len(Docs))
    /\ UNCHANGED <<input, pc, data, docsRef, grouped, groups, num_found, query_time,
                   facets, facet_ranges, facet_pivot>>

GetCursor ==
    /\ pc = "ready"
    /\ ret' = IF data.nextCursorMark.present
              THEN Ret("get_cursor", "", "ok", data.nextCursorMark.mark)
              ELSE Ret("get_cursor", "", "SolrResponseError: No Cursor Mark in the Response", 0)
    /\ UNCHANGED <<input, pc, data, docsRef, grouped, groups, num_found, query_time,
                   facets, facet_ranges, facet_pivot>>

\* The documents of ds that hold field, in order.
RECURSIVE WithField(_, _)
WithField(ds, field) ==
    IF Len(ds) = 0 THEN <<>>
    ELSE IF field \in DOMAIN Head(ds) THEN <<Head(ds)>> \o WithField(Tail(ds), field)
    ELSE WithField(Tail(ds), field)

FieldValues(ds, field) ==
    [i \in 1..Len(WithField(ds, field)) |-> WithField(ds, field)[i][field]]

GetFieldValuesAsList ==
    /\ pc = "ready"
    /\ \E field \in DocFields :
          ret' = Ret("get_field_values_as_list", field, "ok", FieldValues(Docs, field))
    /\ UNCHANGED <<input, pc, data, docsRef, grouped, groups, num_found, query_time,
                   facets, facet_ranges, facet_pivot>>

GetFirstFieldValuesAsList ==
    /\ pc = "ready"
    /\ \E field \in DocFields :
          ret' = IF Len(WithField(Docs, field)) > 0
                 THEN Ret("get_first_field_values_as_list", field, "ok",
                          WithField(Docs, field)[1][field])
                 ELSE Ret("get_first_field_values_as_list", field,
                          "SolrResponseError: No field in result set", 0)
    /\ UNCHANGED <<input, pc, data, docsRef, grouped, groups, num_found, query_time,
                   facets, facet_ranges, facet_pivot>>

----------------------------------------------------------------------------
(* get_json, lines 280-284: json.dumps(self.data).  The text is modelled   *)
(* by its tokens: a str is written quoted with its characters, an int as   *)
(* its decimal digits unquoted, so that "007" and 7 have different texts.  *)
(* Containers keep their structure; numFound, counts and the other plain   *)
(* numbers of the envelope are written and read back as numbers.           *)

DumpValue(v) ==
    CASE v.t = "str" -> [quoted |-> TRUE, text |-> v.s]
      [] v.t = "int" -> [quoted |-> FALSE, text |-> IntText(v.n)]
      [] v.t = "list" -> [quoted |-> FALSE, text |-> <<"[", "]">>]
      [] v.t = "dict" -> [quoted |-> FALSE, text |-> <<"{", "}">>]

\* json.loads of one token.
LoadValue(tok) ==
    IF tok.quoted THEN VStr(tok.text)
    ELSE IF tok.text = <<"[", "]">> THEN VList
    ELSE IF tok.text = <<"{", "}">> THEN VMap
    ELSE VInt(ToInt(tok.text))

\* One value written (dir = "dumps") or read back (dir = "loads").
Conv(dir, v) == IF dir = "dumps" THEN DumpValue(v) ELSE LoadValue(v)

\* The conversion carried through the containers of the envelope.
MapDocs(ds, dir) == [i \in 1..Len(ds) |-> [f \in DOMAIN ds[i] |-> Conv(dir, ds[i][f])]]
MapList(l, dir) == [i \in 1..Len(l) |-> Conv(dir, l[i])]

MapRaw(d, F) ==
    Raw(d.responseHeader,
        Response1(d.response.present, MapDocs(d.response.docs, F),
                  d.response.hasNumFound, d.response.numFound),
        [present |-> d.grouped.present,
         fields |-> [i \in 1..Len(d.grouped.fields) |->
                       GroupedField(d.grouped.fields[i].field, d.grouped.fields[i].ngroups,
                                    d.grouped.fields[i].matches,
                                    MapDocs(d.grouped.fields[i].groups, F))]],
        FacetCounts(d.facet_counts.kind,
                    [kind |-> d.facet_counts.facet_fields.kind,
                     val |-> [f \in DOMAIN d.facet_counts.facet_fields.val |->
                                MapList(d.facet_counts.facet_fields.val[f], F)]],
                    [kind |-> d.facet_counts.facet_ranges.kind,
                     val |-> [f \in DOMAIN d.facet_counts.facet_ranges.val |->
                                [isList |-> d.facet_counts.facet_ranges.val[f].isList,
                                 counts |-> MapList(d.facet_counts.facet_ranges.val[f].counts, F)]]],
                    d.facet_counts.facet_pivot),
        d.nextCursorMark)

Dumps(d) == MapRaw(d, "dumps")
Loads(text) == MapRaw(text, "loads")

GetJson ==
    /\ pc = "ready"
    /\ ret' = Ret("get_json", "", "ok", Dumps(data))
    /\ UNCHANGED <<input, pc, data, docsRef, grouped, groups, num_found, query_time,
                   facets, facet_ranges, facet_pivot>>

----------------------------------------------------------------------------
(* get_facets and get_facets_ranges, lines 82-95 and 122-135.              *)

\* zip(l[::2], l[1::2]): the pairs of a flat list; an odd last element is
\* dropped by zip.
Pairs(l) == [i \in 1..(Len(l) \div 2) |-> <<l[2 * i - 1], l[2 * i]>>]

\* An insertion-ordered mapping is the sequence of its <<key, value>> items.
\* Setting a key that is present replaces its value in place.
Put(m, k, v) ==
    IF \E i \in 1..Len(m) : m[i][1] = k
    THEN [i \in 1..Len(m) |-> IF m[i][1] = k THEN <<k, v>> ELSE m[i]]
    ELSE Append(m, <<k, v>>)

\* OrderedDict(pairs) / dict(pairs): the items are inserted in order.
RECURSIVE FromPairs(_)
FromPairs(ps) ==
    IF Len(ps) = 0 THEN <<>>
    ELSE Put(FromPairs(SubSeq(ps, 1, Len(ps) - 1)), ps[Len(ps)][1], ps[Len(ps)][2])

HasKey(m, k) == \E i \in 1..Len(m) : m[i][1] = k
Lookup(m, k) == m[CHOOSE i \in 1..Len(m) : m[i][1] = k][2]
KeysOf(m) == [i \in 1..Len(m) |-> m[i][1]]
ValuesOf(m) == [i \in 1..Len(m) |-> m[i][2]]

\* Lines 87-90: line 88 tests type(x == list), which is always true.
DecodeFacetFields(ff) == [f \in DOMAIN ff |-> FromPairs(Pairs(ff[f]))]

\* Lines 127-130: a field whose counts is not a list is skipped.
DecodeFacetRanges(fr) ==
    [f \in {g \in DOMAIN fr : fr[g].isList} |-> FromPairs(Pairs(fr[f].counts))]

NoFacets == "SolrResponseError: No Facet Information in the Response"
NoRanges == "SolrResponseError: No Facet Ranges in the Response"

\* What one call of get_facets binds self.facets to and how it ends.  Line
\* 83 binds the attribute before the response is looked at, and line 91
\* returns it whenever facet_counts is a dict.
FacetsMemo ==
    IF facets.set THEN facets.val
    ELSE IF data.facet_counts.kind = "dict" /\ data.facet_counts.facet_fields.kind = "dict"
         THEN DecodeFacetFields(data.facet_counts.facet_fields.val)
         ELSE <<>>

FacetsOutcome ==
    IF facets.set \/ data.facet_counts.kind = "dict" THEN "ok" ELSE NoFacets

GetFacets ==
    /\ pc = "ready"
    /\ facets' = Set(FacetsMemo)
    /\ ret' = IF FacetsOutcome = "ok" THEN Ret("get_facets", "", "ok", FacetsMemo)
              ELSE Ret("get_facets", "", FacetsOutcome, 0)
    /\ UNCHANGED <<input, pc, data, docsRef, grouped, groups, num_found, query_time,
                   facet_ranges, facet_pivot>>

\* get_facets_ranges: line 131 returns inside the inner if, so with
\* facet_counts a dict and no dict under facet_ranges the call falls off
\* the end and returns None.
RangesMemo ==
    IF facet_ranges.set THEN facet_ranges.val
    ELSE IF data.facet_counts.kind = "dict" /\ data.facet_counts.facet_ranges.kind = "dict"
         THEN DecodeFacetRanges(data.facet_counts.facet_ranges.val)
         ELSE <<>>

RangesOutcome ==
    IF facet_ranges.set THEN "ok"
    ELSE IF data.facet_counts.kind = "dict"
         THEN IF data.facet_counts.facet_ranges.kind = "dict" THEN "ok" ELSE "None"
         ELSE NoRanges

GetFacetsRanges ==
    /\ pc = "ready"
    /\ facet_ranges' = Set(RangesMemo)
    /\ ret' = IF RangesOutcome = "ok" THEN Ret("get_facets_ranges", "", "ok", RangesMemo)
              ELSE Ret("get_facets_ranges", "", RangesOutcome, 0)
    /\ UNCHANGED <<input, pc, data, docsRef, grouped, groups, num_found, query_time,
                   facets, facet_pivot>>

----------------------------------------------------------------------------
(* get_facet_values_as_list and get_facet_keys_as_list, lines 254-278.     *)
(* Both call get_facets first, with its binding of self.facets.            *)

FacetFields == {"color", "size"}

GetFacetValuesAsList ==
    /\ pc = "ready"
    /\ facets' = Set(FacetsMemo)
    /\ \E field \in FacetFields :
          ret' = IF FacetsOutcome # "ok"
                 THEN Ret("get_facet_values_as_list", field, FacetsOutcome, 0)
                 ELSE IF field \in DOMAIN FacetsMemo
                 THEN Ret("get_facet_values_as_list", field, "ok", ValuesOf(FacetsMemo[field]))
                 ELSE Ret("get_facet_values_as_list", field,
                          "SolrResponseError: No field in facet output", 0)
    /\ UNCHANGED <<input, pc, data, docsRef, grouped, groups, num_found, query_time,
                   facet_ranges, facet_pivot>>

\* Line 275 compares the mapping with -1, which never holds; when field is
\* no key the method falls off the end and returns None.
GetFacetKeysAsList ==
    /\ pc = "ready"
    /\ facets' = Set(FacetsMemo)
    /\ \E field \in FacetFields :
          ret' = IF FacetsOutcome # "ok"
                 THEN Ret("get_facet_keys_as_list", field, FacetsOutcome, 0)
                 ELSE IF field \in DOMAIN FacetsMemo
                 THEN Ret("get_facet_keys_as_list", field, "ok", KeysOf(FacetsMemo[field]))
                 ELSE Ret("get_facet_keys_as_list", field, "None", 0)
    /\ UNCHANGED <<input, pc, data, docsRef, grouped, groups, num_found, query_time,
                   facet_ranges, facet_pivot>>

----------------------------------------------------------------------------
(* get_facet_pivot and _rec_subfield, lines 152-176.                       *)
(* A pivot entry is [value, count, hasPivot, pivot]; pivot is the list of  *)
(* the entries of the next level.  A decoded mapping binds a value to      *)
(* a count (leaf) or to a further mapping.                                 *)

PEntry(v, c) == [value |-> v, count |-> c, hasPivot |-> FALSE, pivot |-> <<>>]
PNested(v, c, sub) == [value |-> v, count |-> c, hasPivot |-> TRUE, pivot |-> sub]

PLeaf(n) == [leaf |-> TRUE, n |-> n, m |-> <<>>]
PNode(m) == [leaf |-> FALSE, n |-> 0, m |-> m]

Bind(m, k, x) == [j \in DOMAIN m \cup {k} |-> IF j = k THEN x ELSE m[j]]
\* dict.update
Update(m, m2) == [j \in DOMAIN m \cup DOMAIN m2 |-> IF j \in DOMAIN m2 THEN m2[j] ELSE m[j]]

Done(m) == [outcome |-> "ok", m |-> m]
Raised(e, m) == [outcome |-> e, m |-> m]

\* Lines 167-172, the list branch, from its i-th element on with out built
\* so far.  Line 170 evaluates the recursive call and then subscripts the
\* list sub_field_set with 'value', which raises TypeError.
RECURSIVE RecSubfieldList(_, _, _)
RecSubfieldList(l, i, out) ==
    IF i > Len(l) THEN Done(out)
    ELSE IF l[i].hasPivot
         THEN LET r == RecSubfieldList(l[i].pivot, 1, <<>>)
              IN IF r.outcome # "ok" THEN Raised(r.outcome, <<>>) ELSE Raised("TypeError", <<>>)
         ELSE RecSubfieldList(l, i + 1, Bind(out, l[i].value, PLeaf(l[i].count)))

\* Lines 173-176, the dict branch: an entry without 'pivot' adds nothing.
RecSubfieldDict(e) ==
    IF e.hasPivot
    THEN LET r == RecSubfieldList(e.pivot, 1, <<>>)
         IN IF r.outcome # "ok" THEN Raised(r.outcome, <<>>)
            ELSE Done(Bind(<<>>, e.value, PNode(r.m)))
    ELSE Done(<<>>)

\* Lines 158-160 from the j-th top-level entry on; m is
\* self.facet_pivot[fieldset] so far, and stays as it is when a call raises.
RECURSIVE EntryLoop(_, _, _)
EntryLoop(es, j, m) ==
    IF j > Len(es) THEN Done(m)
    ELSE LET r == RecSubfieldDict(es[j])
         IN IF r.outcome # "ok" THEN Raised(r.outcome, m)
            ELSE EntryLoop(es, j + 1, Update(m, r.m))

\* Lines 156-160 from the i-th field-spec on; fp is self.facet_pivot so far.
RECURSIVE SpecLoop(_, _, _)
SpecLoop(ps, i, fp) ==
    IF i > Len(ps) THEN Done(fp)
    ELSE LET r == EntryLoop(ps[i].entries, 1, <<>>)
         IN IF r.outcome # "ok" THEN Raised(r.outcome, Bind(fp, ps[i].spec, r.m))
            ELSE SpecLoop(ps, i + 1, Bind(fp, ps[i].spec, r.m))

\* One first call of get_facet_pivot on raw object d: line 153 binds the
\* attribute to {} before anything is read; without facet_counts the call
\* falls off the end (None); line 155 raises TypeError on a facet_counts
\* that is no mapping and KeyError on one without facet_pivot.
PivotFirstCall(d) ==
    IF d.facet_counts.kind = "absent" THEN Raised("None", <<>>)
    ELSE IF d.facet_counts.kind # "dict" THEN Raised("TypeError", <<>>)
    ELSE IF d.facet_counts.facet_pivot.kind = "absent" THEN Raised("KeyError", <<>>)
    ELSE SpecLoop(d.facet_counts.facet_pivot.val, 1, <<>>)

GetFacetPivot ==
    /\ pc = "ready"
    /\ IF facet_pivot.set
       THEN /\ ret' = Ret("get_facet_pivot", "", "ok", facet_pivot.val)
            /\ UNCHANGED facet_pivot
       ELSE /\ facet_pivot' = Set(PivotFirstCall(data).m)
            /\ ret' = IF PivotFirstCall(data).outcome = "ok"
                      THEN Ret("get_facet_pivot", "", "ok", PivotFirstCall(data).m)
                      ELSE Ret("get_facet_pivot", "", PivotFirstCall(data).outcome, 0)
    /\ UNCHANGED <<input, pc, data, docsRef, grouped, groups, num_found, query_time,
                   facets, facet_ranges>>

----------------------------------------------------------------------------
(* The responses the model is run on.                                      *)

Strings(n) == UNION {[1..k -> Alphabet] : k \in 0..n}

\* Documents with one field holding any string up to MaxStrLen, a number,
\* a list or a mapping.
SingleDocs ==
    {[f \in {"f"} |-> v] :
        v \in {VStr(s) : s \in Strings(MaxStrLen)} \cup {VInt(0), VInt(7), VList, VMap}}

\* Documents over both fields, few values.
SmallDocs == UNION {[S -> {VStr(<<"0", "7">>), VStr(<<"a">>)}] : S \in SUBSET DocFields}

DocLists == {<<d>> : d \in SingleDocs} \cup SeqsUpTo(SmallDocs, MaxDocs)

UngroupedInputs ==
    {Raw(OkHeader, Response(ds, TRUE, n), NoGrouped, NoFacetCounts, NoCursor) :
        ds \in SeqsUpTo(SmallDocs, 1), n \in 0..MaxNum}
    \cup {Raw(OkHeader, Response(ds, FALSE, 0), NoGrouped, NoFacetCounts, NoCursor) :
        ds \in DocLists}

\* A group entry: the group's value and its nested document list.
Group(v) == [groupValue |-> v, doclist |-> VMap]
GroupLists ==
    {<<>>, <<Group(VStr(<<"0", "0", "7">>))>>,
     <<Group(VStr(<<"a">>)), Group(VStr(<<"1", "0", "0">>))>>}

GroupFieldNames == {"brand", "shop"}
GroupedFields(f) ==
    {GroupedField(f, ng, m, gs) : ng \in 0..MaxNum, m \in 0..MaxNum, gs \in GroupLists}

GroupedInputs ==
    {Raw(OkHeader, NoResponse, Grouped(fs), NoFacetCounts, NoCursor) :
        fs \in {<<>>}
            \cup UNION {{<<x>> : x \in GroupedFields(f)} : f \in GroupFieldNames}
            \cup UNION {{<<x, GroupedField(g, 0, MaxNum, gs)>> :
                              x \in GroupedFields(f), gs \in GroupLists} :
                          <<f, g>> \in {p \in GroupFieldNames \X GroupFieldNames : p[1] # p[2]}}}

EmptyInputs ==
    {Raw(OkHeader, NoResponse, NoGrouped, NoFacetCounts, c) : c \in {NoCursor, Cursor("AoE")}}

\* Responses without responseHeader.QTime, which the input contract excludes.
MalformedInputs ==
    {Raw(h, Response(<<>>, TRUE, 0), NoGrouped, NoFacetCounts, NoCursor) :
        h \in {Header(FALSE, FALSE, 0), Header(TRUE, FALSE, 0)}}

DocInputs == UngroupedInputs \cup GroupedInputs \cup EmptyInputs \cup MalformedInputs

\* Flat facet lists.
FlatElems == {VStr(<<"r">>), VStr(<<"b">>), VInt(0), VInt(3)}
FlatLists == SeqsUpTo(FlatElems, MaxFlatLen)
ShortLists == SeqsUpTo(FlatElems, 2)

FieldMaps ==
    {<<>>} \cup {[f \in {"color"} |-> l] : l \in FlatLists}
           \cup {[f \in FacetFields |-> IF f = "color" THEN l[1] ELSE l[2]] :
                    l \in ShortLists \X ShortLists}

RangeField(b, l) == [isList |-> b, counts |-> l]
RangeMaps ==
    {<<>>} \cup {[f \in {"price"} |-> RangeField(TRUE, l)] : l \in FlatLists}
           \cup {[f \in {"price", "age"} |->
                     IF f = "price" THEN RangeField(TRUE, l) ELSE RangeField(FALSE, <<>>)] :
                    l \in ShortLists}

\* One pivot section of two levels.
SamplePivot ==
    Section(<<[spec |-> "a,b",
               entries |-> <<PNested("A", 2, <<PEntry("X", 1), PEntry("Y", 1)>>),
                             PEntry("B", 1)>>]>>)

OneDoc == <<[f \in {"f"} |-> VStr(<<"0", "7">>)]>>
FacetRaw(fc) == Raw(OkHeader, Response(OneDoc, TRUE, 1), NoGrouped, fc, NoCursor)

FacetInputs ==
    {FacetRaw(NoFacetCounts), FacetRaw(FacetCounts("other", Absent, Absent, Absent))}
    \cup {FacetRaw(FacetCounts("dict", ff, fr, fp)) :
            ff \in {Absent, NotADict} \cup {Section(m) : m \in FieldMaps},
            fr \in {Absent, NotADict, Section(<<>>)},
            fp \in {Absent}}
    \cup {FacetRaw(FacetCounts("dict", Absent, Absent, SamplePivot))}
    \cup {FacetRaw(FacetCounts("dict", ff, fr, Absent)) :
            ff \in {Absent, Section(<<>>)},
            fr \in {Section(m) : m \in RangeMaps}}

\* Pivot entries nested to depth d at most, with lists of n entries at most.
PivotValues == {"A", "B"}
PivotLeaves == {PEntry(v, c) : v \in PivotValues, c \in 1..MaxCount}
RECURSIVE PivotEntries(_, _)
PivotEntries(d, n) ==
    IF d <= 1 THEN PivotLeaves
    ELSE PivotLeaves \cup
         {PNested(v, MaxCount, sub) :
            v \in PivotValues, sub \in SeqsUpTo(PivotEntries(d - 1, n), n)}

PivotEntryLists ==
    SeqsUpTo(PivotEntries(MaxPivotDepth - 1, MaxPivotLen), MaxPivotLen)
    \cup SeqsUpTo(PivotEntries(MaxPivotDepth, 1), 1)

PivotSections ==
    {<<>>} \cup {<<[spec |-> "a,b", entries |-> es]>> : es \in PivotEntryLists}
           \cup {<<[spec |-> p[1], entries |-> es[1]], [spec |-> p[2], entries |-> es[2]]>> :
                    p \in {<<"a,b", "c">>, <<"c", "a,b">>},
                    es \in SeqsUpTo(PivotEntries(2, 1), 1) \X SeqsUpTo(PivotEntries(2, 1), 1)}

PivotInputs ==
    {FacetRaw(NoFacetCounts), FacetRaw(FacetCounts("dict", Absent, Absent, Absent))}
    \cup {FacetRaw(FacetCounts("dict", Absent, Absent, Section(ps))) : ps \in PivotSections}

----------------------------------------------------------------------------
(* The specifications: one response is handed to the constructor, then any *)
(* method may be called any number of times, in any order.                 *)

InitOn(inputs) ==
    /\ input \in inputs
    /\ data = input
    /\ pc = "new"
    /\ docsRef = NoRef
    /\ grouped = FALSE
    /\ groups = Unset(<<>>)
    /\ num_found = Unset(0)
    /\ query_time = 0
    /\ facets = Unset(<<>>)
    /\ facet_ranges = Unset(<<>>)
    /\ facet_pivot = Unset(<<>>)
    /\ ret = Ret("", "", "", 0)

InitDocs == InitOn(DocInputs)
InitFacets == InitOn(FacetInputs)
InitPivot == InitOn(PivotInputs)

Next ==
    \/ Construct
    \/ GetNumFound
    \/ GetResultsCount
    \/ GetCursor
    \/ GetFieldValuesAsList
    \/ GetFirstFieldValuesAsList
    \/ GetJson
    \/ GetFacets
    \/ GetFacetsRanges
    \/ GetFacetPivot
    \/ GetFacetValuesAsList
    \/ GetFacetKeysAsList

SpecDocs == InitDocs /\ [][Next]_vars
SpecFacets == InitFacets /\ [][Next]_vars
SpecPivot == InitPivot /\ [][Next]_vars

----------------------------------------------------------------------------
(* The claims.                                                             *)

\* The working collection as it was in the object handed to __init__.
InputDocs == Deref(docsRef, input)

\* The input contract: responseHeader.QTime, at most one of response/grouped.
MeetsContract(d) ==
    /\ d.responseHeader.present /\ d.responseHeader.hasQTime
    /\ ~(d.response.present /\ d.grouped.present)

\* C1: the text get_json returns decodes to the object that was handed to
\* the constructor, as it was before construction, whatever calls came before.
C1_RoundTrip == RetOp = "get_json" => Loads(RetVal) = input

\* C7: get_num_found returns numFound when the response mapping has it
\* (zero included) and fails on every other response, on every call.
C7_NumFound ==
    RetOp = "get_num_found" =>
        IF input.response.present /\ input.response.hasNumFound
        THEN RetOutcome = "ok" /\ RetVal = input.response.numFound
        ELSE RetOutcome \notin {"ok", "None"}

\* A grouped response was asked for its count, after a memoized accessor ran.
C7_Witness ==
    /\ RetOp = "get_num_found" /\ RetOutcome = "AttributeError"
    /\ grouped /\ facets.set

\* A string of ASCII decimal digits, and the same string without the zeros
\* that lead it (one digit is always kept).
IsDecimalString(s) == Len(s) > 0 /\ \A i \in 1..Len(s) : s[i] \in {"0", "1", "2", "3", "4", "5", "6", "7", "8", "9"}
RECURSIVE StripZeros(_)
StripZeros(s) == IF Len(s) > 1 /\ s[1] = "0" THEN StripZeros(Tail(s)) ELSE s

\* C8: once constructed, the working collection has the documents of the
\* input, in number, order and field names; a field that held a non-empty
\* string of decimal digits holds the integer those digits write, and every
\* other field holds its input value.
C8_Normalized ==
    pc = "ready" =>
        /\ Len(Docs) = Len(InputDocs)
        /\ \A i \in 1..Len(Docs) :
              /\ DOMAIN Docs[i] = DOMAIN InputDocs[i]
              /\ \A f \in DOMAIN Docs[i] :
                    IF InputDocs[i][f].t = "str" /\ IsDecimalString(InputDocs[i][f].s)
                    THEN /\ Docs[i][f].t = "int"
                         /\ IntText(Docs[i][f].n) = StripZeros(InputDocs[i][f].s)
                    ELSE Docs[i][f] = InputDocs[i][f]

\* "007" was read as 7.
C8_Witness ==
    /\ pc = "ready" /\ docsRef.kind = "response" /\ Len(Docs) = 1
    /\ "f" \in DOMAIN Docs[1]
    /\ InputDocs[1]["f"] = VStr(<<"0", "0", "7">>)
    /\ Docs[1]["f"] = VInt(7)

\* C10: the constructor does not fail on an input that meets the contract,
\* zero fields under grouped included; afterwards the working collection is
\* bound, the metadata of every grouped field is recorded, and
\* get_results_count returns the length of the collection.
C10_ConstructTotal ==
    MeetsContract(input) =>
        /\ pc # "failed"
        /\ pc = "ready" =>
              /\ docsRef.kind # "unset"
              /\ grouped <=> input.grouped.present
              /\ \A i \in 1..Len(input.grouped.fields) :
                    /\ groups.val[input.grouped.fields[i].field \o "_ngroups"]
                          = input.grouped.fields[i].ngroups
                    /\ groups.val[input.grouped.fields[i].field \o "_matches"]
                          = input.grouped.fields[i].matches
        /\ RetOp = "get_results_count" =>
              /\ RetOutcome = "ok"
              /\ RetVal = IF input.response.present THEN Len(input.response.docs)
                           ELSE IF input.grouped.present
                           THEN Len(input.grouped.fields[Len(input.grouped.fields)].groups)
                           ELSE 0

\* The decoding the specification gives for one level of pivot entries: each
\* value is bound to the decoding of its entry's sub-list, or to its count
\* when the entry has none; the last entry of a value wins.
LastWith(es, v) == CHOOSE i \in 1..Len(es) :
                      es[i].value = v /\ \A j \in (i + 1)..Len(es) : es[j].value # v
RECURSIVE DecodePivotLevel(_)
DecodePivotLevel(es) ==
    [v \in {es[i].value : i \in 1..Len(es)} |->
        IF es[LastWith(es, v)].hasPivot
        THEN PNode(DecodePivotLevel(es[LastWith(es, v)].pivot))
        ELSE PLeaf(es[LastWith(es, v)].count)]

PivotSection == input.facet_counts.facet_pivot

\* C2: in the mapping get_facet_pivot returns, every field-spec is bound to
\* the decoding of its entries: the keys are the values of the top-level
\* entries, an entry with a sub-list is bound to the decoding of the
\* sub-list and an entry without one to its count.
C2_PivotDecoded ==
    (RetOp = "get_facet_pivot" /\ RetOutcome = "ok" /\ PivotSection.kind = "dict") =>
        \A i \in 1..Len(PivotSection.val) :
            /\ PivotSection.val[i].spec \in DOMAIN RetVal
            /\ RetVal[PivotSection.val[i].spec] = DecodePivotLevel(PivotSection.val[i].entries)

Max(S) == CHOOSE x \in S : \A y \in S : y <= x
RECURSIVE EntriesDepth(_)
EntriesDepth(es) ==
    IF Len(es) = 0 THEN 0
    ELSE 1 + Max({IF es[i].hasPivot THEN EntriesDepth(es[i].pivot) ELSE 0 : i \in 1..Len(es)})
RECURSIVE MapDepth(_)
MapDepth(m) ==
    IF DOMAIN m = {} THEN 0
    ELSE 1 + Max({IF m[k].leaf THEN 0 ELSE MapDepth(m[k].m) : k \in DOMAIN m})

\* C3: whatever the depth to which the entries of a field-spec nest,
\* get_facet_pivot returns without failing and the mapping of the spec is
\* nested to that depth.
C3_PivotAnyDepth ==
    (RetOp = "get_facet_pivot" /\ PivotSection.kind = "dict") =>
        /\ RetOutcome = "ok"
        /\ \A i \in 1..Len(PivotSection.val) :
              /\ PivotSection.val[i].spec \in DOMAIN RetVal
              /\ MapDepth(RetVal[PivotSection.val[i].spec])
                    = EntriesDepth(PivotSection.val[i].entries)

\* C4: two calls of the same memoized accessor have the same outcome and
\* return the same structure; stated here for two calls in a row, the case
\* with no other call in between.
C4_MemoIdempotent ==
    [][\A op \in {"get_facets", "get_facets_ranges", "get_facet_pivot"} :
          (ret[1] = op /\ ret'[1] = op) => (ret'[3] = ret[3] /\ ret'[4] = ret[4])]_vars

FacetFieldsOk ==
    input.facet_counts.kind = "dict" /\ input.facet_counts.facet_fields.kind = "dict"
FacetRangesOk ==
    input.facet_counts.kind = "dict" /\ input.facet_counts.facet_ranges.kind = "dict"

\* C5: get_facets fails with the no-facet-information error whenever
\* facet_counts.facet_fields is absent or no mapping.
C5_NoFacetsFails == (RetOp = "get_facets" /\ ~FacetFieldsOk) => RetOutcome = NoFacets

\* C6: get_facets_ranges fails with the no-range-information error whenever
\* facet_counts.facet_ranges is absent or no mapping, and otherwise returns
\* the mapping built from each field's counts by the alternating-pair rule.
C6_RangesOrFails ==
    RetOp = "get_facets_ranges" =>
        IF FacetRangesOk
        THEN /\ RetOutcome = "ok"
             /\ RetVal = DecodeFacetRanges(input.facet_counts.facet_ranges.val)
        ELSE RetOutcome = NoRanges

\* C9: get_facet_keys_as_list fails like get_facet_values_as_list: when
\* get_facets succeeds and field is no key of the facet mapping it fails
\* with the field-not-found error, and does not return None.
C9_KeysFailLikeValues ==
    (RetOp = "get_facet_keys_as_list" /\ facets.set /\ RetArg \notin DOMAIN facets.val
        /\ RetOutcome # NoFacets) =>
        RetOutcome = "SolrResponseError: No field in facet output"

====
